---------------------------- MODULE Spec2Model ----------------------------
(***************************************************************************)
(* Model of schema-diff (src/main.go): CompareOptions.Compare, the         *)
(* concurrent comparison of two database catalogs, and colCompare, the     *)
(* column diff of one table.                                               *)
(*                                                                         *)
(* Strings built with fmt.Fprintf are modelled as the tuple of their       *)
(* pieces (format literals and arguments, in order); the diff text is the  *)
(* sequence of its lines, the empty string being the empty sequence.       *)
(***************************************************************************)
EXTENDS Integers, Sequences, FiniteSets, Bags, TLC

(***************************************************************************)
(* Bounds of the model.                                                    *)
(***************************************************************************)
\* colCompare checked alone: column names and type signatures to draw from,
\* and the longest column list.
CmpColNames == 3
CmpColTypes == 2
CmpMaxCols == 2

\* Compare: object names, objects per catalog, column names and type
\* signatures of a table, columns per table.
MaxNames == 1
MaxObjs == 2
MaxColNames == 1
MaxColTypes == 2
MaxCols == 1

\* Compare when no fetch fails: object names and objects per catalog.
WideNames == 2
WideObjs == 3

\* the column tasks on their own: tables and column names of the rows.
PartNames == 2
PartColNames == 2

\* Compare under fair scheduling: objects per catalog.
LiveObjs == 1

NameOf == <<"A", "B", "C", "D">>
ColNameOf == <<"X", "Y", "Z", "W", "V">>
ColTypeOf == <<"DATE", "NUMBER(10,0)", "VARCHAR2(50)", "NUMBER(12,2) NOT NULL">>

Schemas == {"local", "remote"}

(***************************************************************************)
(* Helpers over sequences.                                                 *)
(***************************************************************************)
Range(s) == {s[i] : i \in DOMAIN s}

RECURSIVE SelectIdx(_, _, _)
\* the subsequence of s at the indices i for which keep[i]
SelectIdx(s, keep, i) ==
    IF i > Len(s) THEN <<>>
    ELSE (IF keep[i] THEN <<s[i]>> ELSE <<>>) \o SelectIdx(s, keep, i + 1)

RECURSIVE Flatten(_)
Flatten(ss) == IF ss = <<>> THEN <<>> ELSE Head(ss) \o Flatten(Tail(ss))

\* the sequences over S of length at most n
SeqsUpTo(S, n) == UNION {[1..k -> S] : k \in 0..n}

(***************************************************************************)
(* type Column, Column.String and colCompare.                              *)
(***************************************************************************)
Column(schema, table, name, type) ==
    [Schema |-> schema, Table |-> table, Name |-> name, Type |-> type]

\* func (c Column) String() string { return c.Name + " " + c.Type }
ColumnString(c) == <<c.Name, " ", c.Type>>

\* localM / remoteM: the map built by "for _, c := range cols { m[c.Name] = c }",
\* a later column of the same name overwriting an earlier one.
ColMap(cols) ==
    [nm \in {cols[i].Name : i \in DOMAIN cols} |->
        cols[CHOOSE i \in DOMAIN cols :
                /\ cols[i].Name = nm
                /\ \A j \in DOMAIN cols : cols[j].Name = nm => j <= i]]

AddLine(r) == <<"ALTER TABLE ", r.Table, " ADD ", r.Name, " ", r.Type, ";\n">>
ModifyLine(r, l) ==
    <<"ALTER TABLE ", r.Table, " MODIFY ", r.Name, " ", r.Type, "; --", l.Type, "\n">>
DropLine(l) == <<"ALTER TABLE ", l.Table, " DROP ", l.Name, ";\n">>

\* RemoteLines with the two signatures of a MODIFY line exchanged
RemoteLinesSwapped(local, remote) ==
    LET localM == ColMap(local)
        line(r) == IF r.Name \notin DOMAIN localM THEN <<AddLine(r)>>
                   ELSE IF localM[r.Name].Type = r.Type THEN <<>>
                   ELSE <<ModifyLine(localM[r.Name], r)>>
    IN  Flatten([i \in DOMAIN remote |-> line(remote[i])])

\* RemoteLines comparing the whole Column (l == r) where it compares the types
RemoteLinesWholeColumn(local, remote) ==
    LET localM == ColMap(local)
        line(r) == IF r.Name \notin DOMAIN localM THEN <<AddLine(r)>>
                   ELSE IF localM[r.Name] = r THEN <<>>
                   ELSE <<ModifyLine(r, localM[r.Name])>>
    IN  Flatten([i \in DOMAIN remote |-> line(remote[i])])

\* RemoteLines pairing the columns by position, as a merge of two lists
\* sorted by name would
RemoteLinesByPosition(local, remote) ==
    LET line(k) == IF k > Len(local) \/ local[k].Name # remote[k].Name
                   THEN <<AddLine(remote[k])>>
                   ELSE IF local[k].Type = remote[k].Type THEN <<>>
                   ELSE <<ModifyLine(remote[k], local[k])>>
    IN  Flatten([k \in DOMAIN remote |-> line(k)])

\* the first loop of colCompare: one pass over remote
RemoteLines(local, remote) ==
    LET localM == ColMap(local)
        line(r) == IF r.Name \notin DOMAIN localM THEN <<AddLine(r)>>
                   ELSE IF localM[r.Name].Type = r.Type THEN <<>>
                   ELSE <<ModifyLine(r, localM[r.Name])>>
    IN  Flatten([i \in DOMAIN remote |-> line(remote[i])])

\* the second loop of colCompare: one pass over local
LocalLines(local, remote) ==
    LET remoteM == ColMap(remote)
        line(l) == IF l.Name \in DOMAIN remoteM THEN <<>> ELSE <<DropLine(l)>>
    IN  Flatten([i \in DOMAIN local |-> line(local[i])])

colCompare(local, remote) == RemoteLines(local, remote) \o LocalLines(local, remote)


(***************************************************************************)
(* The catalogs: what tblQry and colQry return.                            *)
(***************************************************************************)
\* type Object struct { Name, Type string }
Object(name, type) == [Name |-> name, Type |-> type]

\* the object types met, in the order ORDER BY 1, 2 gives them
ObjTypeOf == <<"INDEX", "TABLE">>

NameIdx(nm) == CHOOSE k \in DOMAIN NameOf : NameOf[k] = nm
TypeIdx(ty) == CHOOSE k \in DOMAIN ObjTypeOf : ObjTypeOf[k] = ty
ColNameIdx(nm) == CHOOSE k \in DOMAIN ColNameOf : ColNameOf[k] = nm

\* ORDER BY 1, 2 of tblQry
ObjBefore(a, b) ==
    \/ NameIdx(a.Name) < NameIdx(b.Name)
    \/ a.Name = b.Name /\ TypeIdx(a.Type) < TypeIdx(b.Type)

RECURSIVE SortObjs(_)
SortObjs(S) ==
    IF S = {} THEN <<>>
    ELSE LET m == CHOOSE x \in S : \A y \in S \ {x} : ObjBefore(x, y)
         IN  <<m>> \o SortObjs(S \ {m})

\* the object lists a catalog with nNames names can return, at most nObjs long:
\* ordered, no (name, type) twice
ObjLists(nNames, nObjs) ==
    LET universe == {Object(NameOf[k], ObjTypeOf[t]) : k \in 1..nNames, t \in DOMAIN ObjTypeOf}
    IN  {SortObjs(S) : S \in {T \in SUBSET universe : Cardinality(T) <= nObjs}}

ColNames == {ColNameOf[k] : k \in 1..MaxColNames}
ColTypes == {ColTypeOf[k] : k \in 1..MaxColTypes}

RECURSIVE SortColNames(_)
SortColNames(S) ==
    IF S = {} THEN <<>>
    ELSE LET m == CHOOSE x \in S : \A y \in S \ {x} : ColNameIdx(x) < ColNameIdx(y)
         IN  <<m>> \o SortColNames(S \ {m})

\* the columns one table can have: at least one, ordered by name, no name twice
TableColumns ==
    {[k \in DOMAIN SortColNames(S) |-> [Name |-> SortColNames(S)[k], Type |-> f[SortColNames(S)[k]]]] :
        <<S, f>> \in {<<S, f>> \in UNION {{<<T, g>> : g \in [T -> ColTypes]} :
                                    T \in (SUBSET ColNames) \ {{}}} :
                        Cardinality(S) <= MaxCols}}

\* the rows colQry returns for a catalog whose tables have the columns tc[k]
\* (k the index of the table's name): ORDER BY 1, 2 of colQry
ColRows(tc) ==
    Flatten([k \in DOMAIN tc |->
        [j \in DOMAIN tc[k] |->
            [Table |-> NameOf[k], Name |-> tc[k][j].Name, Type |-> tc[k][j].Type]]])

\* a catalog: every TABLE object has columns, nothing else has
Catalogs(nNames, nObjs) ==
    {[objs |-> ol, rows |-> ColRows(tc)] :
        <<ol, tc>> \in {<<ol, tc>> \in ObjLists(nNames, nObjs)
                                        \X [1..nNames -> TableColumns \cup {<<>>}] :
            \A k \in 1..nNames :
                (tc[k] # <<>>) <=> (Object(NameOf[k], "TABLE") \in Range(ol))}}

(***************************************************************************)
(* State.                                                                  *)
(***************************************************************************)
VARIABLES
    O,              \* CompareOptions: [TextDiff]
    db,             \* db[s]: the catalog behind localDB / remoteDB
    ctxDone,        \* the ctx handed to Compare is cancelled
    objPc,          \* objPc[s]: the object-list task of s: "run", "done"
    dest,           \* dest[s]: the slices local and remote
    grpErr,         \* first error of the object-list group, Nil if none
    grpCtxDone,     \* grpCtx (of the object-list group) is done
    colPc,          \* colPc[s]: the column task of s: "query", "scan", "final", "done"
    colIdx,         \* colIdx[s]: the next row of rows
    colBuf,         \* colBuf[s]: the task's cols
    rowsErr,        \* rowsErr[s]: what rows.Err() will return
    idx,            \* idx[s]: loCols (s = local) and reCols (s = remote)
    grpColErr,      \* first error of the column group
    grpColCtxDone,  \* grpColCtx is done
    pc,             \* the position of Compare itself
    i,              \* the index of its current loop
    n,              \* cap(colDiffs)
    colDiffs,       \* the buffered channel's content
    closed,         \* close(colDiffs) was called
    out,            \* what was printed
    retErr,         \* the error Compare returned
    taskPc,         \* taskPc[o]: the compare task started for object o
    taskDiff,       \* taskDiff[o]: its diff, once computed
    closerPc,       \* the goroutine that waits for the compare tasks
    crashed,        \* a goroutine panicked: the process is gone
    errLog,         \* the first failure of each group of fetch tasks, in time order
    cLocal, cRemote, cDiff, cCalled    \* colCompare called on its own

vars == <<O, db, ctxDone, objPc, dest, grpErr, grpCtxDone, colPc, colIdx, colBuf,
          rowsErr, idx, grpColErr, grpColCtxDone, pc, i, n, colDiffs, closed, out,
          retErr, taskPc, taskDiff, closerPc, crashed, errLog, cLocal, cRemote, cDiff,
          cCalled>>

compareVars == <<db, ctxDone, objPc, dest, grpErr, grpCtxDone, colPc, colIdx, colBuf,
          rowsErr, idx, grpColErr, grpColCtxDone, pc, i, n, colDiffs, closed, out,
          retErr, taskPc, taskDiff, closerPc, crashed, errLog>>
cmpVars == <<cLocal, cRemote, cDiff, cCalled>>

\* an error value: errors.Wrap(cause, wrap) when wrap is a query's name, the
\* cause itself when wrap is empty; Nil is the nil error
Error(wrap, kind, schema) == [wrap |-> wrap, kind |-> kind, schema |-> schema]
Nil == Error("", "nil", "")

\* the state right after Compare has started its four fetch tasks (line 168)
Started ==
    /\ ctxDone = FALSE
    /\ objPc = [s \in Schemas |-> "run"]
    /\ dest = [s \in Schemas |-> <<>>]
    /\ grpErr = Nil
    /\ grpCtxDone = FALSE
    /\ colPc = [s \in Schemas |-> "query"]
    /\ colIdx = [s \in Schemas |-> 1]
    /\ colBuf = [s \in Schemas |-> <<>>]
    /\ rowsErr = [s \in Schemas |-> Nil]
    /\ idx = [s \in Schemas |-> <<>>]
    /\ grpColErr = Nil
    /\ grpColCtxDone = FALSE
    /\ pc = "waitObj"
    /\ i = 1
    /\ n = 0
    /\ colDiffs = <<>>
    /\ closed = FALSE
    /\ out = <<>>
    /\ retErr = Nil
    /\ taskPc = <<>>
    /\ taskDiff = <<>>
    /\ closerPc = "none"
    /\ crashed = FALSE
    /\ errLog = <<>>

NoCall ==
    /\ cLocal = <<>>
    /\ cRemote = <<>>
    /\ cDiff = <<>>
    /\ cCalled = FALSE

Init ==
    /\ O \in [TextDiff : BOOLEAN]
    /\ db \in [Schemas -> Catalogs(MaxNames, MaxObjs)]
    /\ Started
    /\ NoCall

(***************************************************************************)
(* colCompare on its own: any two column lists of one table.               *)
(***************************************************************************)
CmpNames == {ColNameOf[k] : k \in 1..CmpColNames}
CmpTypes == {ColTypeOf[k] : k \in 1..CmpColTypes}

\* the column lists colQry can give for table t of schema s: ordered by name
\* (ORDER BY 1, 2), no name twice
ColumnLists(s, t) ==
    {cs \in SeqsUpTo({Column(s, t, nm, ty) : nm \in CmpNames, ty \in CmpTypes}, CmpMaxCols) :
        \A j, k \in DOMAIN cs : j < k => ColNameIdx(cs[j].Name) < ColNameIdx(cs[k].Name)}

InitCol ==
    /\ O \in [TextDiff : BOOLEAN]
    /\ db = [s \in Schemas |-> [objs |-> <<>>, rows |-> <<>>]]
    /\ Started
    /\ cLocal \in ColumnLists("local", "A")
    /\ cRemote \in ColumnLists("remote", "A")
    /\ cDiff = <<>>
    /\ cCalled = FALSE

\* diff := colCompare(loCols[o.Name], reCols[o.Name]), whatever O.TextDiff is
ColumnDiff ==
    /\ ~cCalled
    /\ cDiff' = colCompare(cLocal, cRemote)
    /\ cCalled' = TRUE
    /\ UNCHANGED <<O, cLocal, cRemote, compareVars>>

NextCol == ColumnDiff

SpecCol == InitCol /\ [][NextCol]_vars


(***************************************************************************)
(* Properties of colCompare.                                               *)
(***************************************************************************)
\* how often x occurs in the sequence s
Count(x, s) == Cardinality({k \in DOMAIN s : s[k] = x})
SeqToBag(s) == [x \in Range(s) |-> Count(x, s)]
\* the orders the sequence s can be put in
Shuffles(s) == {[k \in DOMAIN s |-> s[f[k]]] : f \in Permutations(DOMAIN s)}
HasName(cols, nm) == \E k \in DOMAIN cols : cols[k].Name = nm

\* C2: in statement mode the diff of two column lists holds exactly one ADD
\* line for every remote column whose name local has not, exactly one MODIFY
\* line (the remote signature, then the local one as comment) for every name
\* both have with different signatures, exactly one DROP line for every local
\* column whose name remote has not, and no other line.
C2_StatementLines ==
    (cCalled /\ ~O.TextDiff) =>
        LET adds == {<<"ALTER TABLE ", r.Table, " ADD ", r.Name, " ", r.Type, ";\n">> :
                        r \in {c \in Range(cRemote) : ~HasName(cLocal, c.Name)}}
            mods == {<<"ALTER TABLE ", p[1].Table, " MODIFY ", p[1].Name, " ", p[1].Type,
                       "; --", p[2].Type, "\n">> :
                        p \in {q \in Range(cRemote) \X Range(cLocal) :
                                  q[1].Name = q[2].Name /\ q[1].Type # q[2].Type}}
            drops == {<<"ALTER TABLE ", l.Table, " DROP ", l.Name, ";\n">> :
                        l \in {c \in Range(cLocal) : ~HasName(cRemote, c.Name)}}
        IN  /\ \A ln \in adds \cup mods \cup drops : Count(ln, cDiff) = 1
            /\ Range(cDiff) = adds \cup mods \cup drops

\* a call in statement mode that emits an ADD, a MODIFY and a DROP line
C2_Witness ==
    /\ cCalled /\ ~O.TextDiff
    /\ Len(cDiff) = 3
    /\ {cDiff[k][3] : k \in DOMAIN cDiff} = {" ADD ", " MODIFY ", " DROP "}

\* C3: in text-diff mode every line of the diff is a '+' or a '-' line over
\* the rendering "<name> <typeSignature>"; the '+' lines are the renderings of
\* local columns that no remote column renders to, the '-' lines those of
\* remote columns that no local column renders to.
C3_TextDiffLines ==
    (cCalled /\ O.TextDiff) =>
        LET plus == {ln \in Range(cDiff) : ln[1] = "+"}
            minus == {ln \in Range(cDiff) : ln[1] = "-"}
            lo == {ColumnString(c) : c \in Range(cLocal)}
            re == {ColumnString(c) : c \in Range(cRemote)}
        IN  /\ Range(cDiff) = plus \cup minus
            /\ {Tail(ln) : ln \in plus} = lo \ re
            /\ {Tail(ln) : ln \in minus} = re \ lo

\* the names and signatures of a column list
NamedTypes(cols) == {<<c.Name, c.Type>> : c \in Range(cols)}

\* C4: the diff of a column list against itself is empty, in both modes: a
\* table with the same columns in both catalogs has the empty diff.
C4_SelfDiffEmpty ==
    (cCalled /\ NamedTypes(cLocal) = NamedTypes(cRemote)) =>
        /\ cDiff = <<>>
        /\ colCompare(cLocal, cLocal) = <<>>
        /\ colCompare(cRemote, cRemote) = <<>>

\* two columns on each side, the same ones, compared in text-diff mode
C4_Witness ==
    /\ cCalled /\ O.TextDiff
    /\ Len(cLocal) = 2
    /\ NamedTypes(cLocal) = NamedTypes(cRemote)

\* C5: putting local and remote in another order leaves the multiset of the
\* diff's lines as it is.
C5_OrderIndependent ==
    cCalled =>
        \A l \in Shuffles(cLocal), r \in Shuffles(cRemote) :
            SeqToBag(colCompare(l, r)) = SeqToBag(cDiff)

\* a call whose lines come in another order for another order of the columns
C5_Witness ==
    /\ cCalled
    /\ Len(cDiff) >= 2
    /\ \E l \in Shuffles(cLocal), r \in Shuffles(cRemote) : colCompare(l, r) # cDiff

(***************************************************************************)
(* Compare: errors, contexts, maps.                                        *)
(***************************************************************************)
\* The process lives until a goroutine panics or Compare returns: Main hands
\* Compare's result to main, which exits.
Running == ~crashed /\ pc # "returned"

Canceled == Error("", "context canceled", "")

\* what a query on catalog s can fail with: an error of that database, and
\* ctx.Err() once the context it was given is done
FetchErrors(s, done) ==
    {Error("", "ORA", s)} \cup (IF done THEN {Canceled} ELSE {})

\* errors.Wrap(err, qry)
Wrap(e, qry) == [e EXCEPT !.wrap = qry]

\* a task of the group kind ("obj": object lists, "col": columns) of catalog s
\* returned the non-nil error e
Failure(kind, s, e) == [kind |-> kind, schema |-> s, err |-> e]

\* the log of failures: the first failure of each group, in time order
Logged(log, kind, s, e) ==
    IF \E k \in DOMAIN log : log[k].kind = kind THEN log
    ELSE Append(log, Failure(kind, s, e))

\* an errgroup that kept the last error a task returned
LastErr(kept, e) == e

\* errgroup: the first non-nil error a task returns is kept
FirstErr(kept, e) == IF kept = Nil THEN e ELSE kept

\* m[k], the zero value when k is no key of m
Lookup(m, k) == IF k \in DOMAIN m THEN m[k] ELSE <<>>
\* m[k] = v
Put(m, k, v) == [x \in DOMAIN m \cup {k} |-> IF x = k THEN v ELSE m[x]]

Banner(k) == <<"banner", k>>
ObjectLine(o) == <<"object", o>>
DiffLines(td) == <<"diff", td.Table, td.Diff>>

(***************************************************************************)
(* The two object-list tasks (lines 111-126).                              *)
(***************************************************************************)
\* QueryContext fails: return errors.Wrap(err, tblQry)
ObjQueryFail(s) ==
    /\ Running
    /\ objPc[s] = "run"
    /\ \E e \in FetchErrors(s, grpCtxDone) :
          /\ grpErr' = FirstErr(grpErr, Wrap(e, "tblQry"))
          /\ errLog' = Logged(errLog, "obj", s, Wrap(e, "tblQry"))
    /\ grpCtxDone' = TRUE
    /\ objPc' = [objPc EXCEPT ![s] = "done"]
    /\ UNCHANGED <<O, db, ctxDone, dest, colPc, colIdx, colBuf, rowsErr, idx, grpColErr,
                   grpColCtxDone, pc, i, n, colDiffs, closed, out, retErr, taskPc,
                   taskDiff, closerPc, crashed, cmpVars>>

\* rows.Scan or rows.Next fails after k rows were appended
ObjRowsFail(s) ==
    /\ Running
    /\ objPc[s] = "run"
    /\ \E e \in FetchErrors(s, grpCtxDone) :
          /\ grpErr' = FirstErr(grpErr, e)
          /\ errLog' = Logged(errLog, "obj", s, e)
    /\ \E k \in 0..Len(db[s].objs) :
          dest' = [dest EXCEPT ![s] = SubSeq(db[s].objs, 1, k)]
    /\ grpCtxDone' = TRUE
    /\ objPc' = [objPc EXCEPT ![s] = "done"]
    /\ UNCHANGED <<O, db, ctxDone, colPc, colIdx, colBuf, rowsErr, idx, grpColErr,
                   grpColCtxDone, pc, i, n, colDiffs, closed, out, retErr, taskPc,
                   taskDiff, closerPc, crashed, cmpVars>>

\* every row is scanned and appended; rows.Err() is nil
ObjFetchOk(s) ==
    /\ Running
    /\ objPc[s] = "run"
    /\ dest' = [dest EXCEPT ![s] = db[s].objs]
    /\ objPc' = [objPc EXCEPT ![s] = "done"]
    /\ UNCHANGED <<O, db, errLog, ctxDone, grpErr, grpCtxDone, colPc, colIdx, colBuf, rowsErr,
                   idx, grpColErr, grpColCtxDone, pc, i, n, colDiffs, closed, out,
                   retErr, taskPc, taskDiff, closerPc, crashed, cmpVars>>

(***************************************************************************)
(* The two column tasks (lines 142-167).                                   *)
(***************************************************************************)
\* QueryContext fails: return errors.Wrap(err, colQry)
ColQueryFail(s) ==
    /\ Running
    /\ colPc[s] = "query"
    /\ \E e \in FetchErrors(s, grpColCtxDone) :
          /\ grpColErr' = FirstErr(grpColErr, Wrap(e, "colQry"))
          /\ errLog' = Logged(errLog, "col", s, Wrap(e, "colQry"))
    /\ grpColCtxDone' = TRUE
    /\ colPc' = [colPc EXCEPT ![s] = "done"]
    /\ UNCHANGED <<O, db, ctxDone, objPc, dest, grpErr, grpCtxDone, colIdx, colBuf,
                   rowsErr, idx, pc, i, n, colDiffs, closed, out, retErr, taskPc,
                   taskDiff, closerPc, crashed, cmpVars>>

ColQueryOk(s) ==
    /\ Running
    /\ colPc[s] = "query"
    /\ colPc' = [colPc EXCEPT ![s] = "scan"]
    /\ UNCHANGED <<O, db, errLog, ctxDone, objPc, dest, grpErr, grpCtxDone, colIdx, colBuf,
                   rowsErr, idx, grpColErr, grpColCtxDone, pc, i, n, colDiffs, closed,
                   out, retErr, taskPc, taskDiff, closerPc, crashed, cmpVars>>

\* ColScanRow without "cols = nil" after the store at a change of table
ColScanRowNoReset(s) ==
    /\ Running
    /\ colPc[s] = "scan"
    /\ colIdx[s] <= Len(db[s].rows)
    /\ LET row == db[s].rows[colIdx[s]]
           c == Column(s, row.Table, row.Name, row.Type)
           cols == colBuf[s]
       IN  /\ idx' = IF Len(cols) > 0 /\ cols[Len(cols)].Table # c.Table
                     THEN [idx EXCEPT ![s] = Put(idx[s], cols[Len(cols)].Table, cols)]
                     ELSE idx
           /\ colBuf' = [colBuf EXCEPT ![s] = Append(cols, c)]
    /\ colIdx' = [colIdx EXCEPT ![s] = colIdx[s] + 1]
    /\ UNCHANGED <<O, db, errLog, ctxDone, objPc, dest, grpErr, grpCtxDone, colPc, rowsErr,
                   grpColErr, grpColCtxDone, pc, i, n, colDiffs, closed, out, retErr,
                   taskPc, taskDiff, closerPc, crashed, cmpVars>>

\* one turn of the loop: rows.Next() is true, rows.Scan succeeds (lines 150-162)
ColScanRow(s) ==
    /\ Running
    /\ colPc[s] = "scan"
    /\ colIdx[s] <= Len(db[s].rows)
    /\ LET row == db[s].rows[colIdx[s]]
           c == Column(s, row.Table, row.Name, row.Type)
           cols == colBuf[s]
       IN  IF Len(cols) > 0 /\ cols[Len(cols)].Table # c.Table
           THEN /\ idx' = [idx EXCEPT ![s] = Put(idx[s], cols[Len(cols)].Table, cols)]
                /\ colBuf' = [colBuf EXCEPT ![s] = <<c>>]
           ELSE /\ idx' = idx
                /\ colBuf' = [colBuf EXCEPT ![s] = Append(cols, c)]
    /\ colIdx' = [colIdx EXCEPT ![s] = colIdx[s] + 1]
    /\ UNCHANGED <<O, db, errLog, ctxDone, objPc, dest, grpErr, grpCtxDone, colPc, rowsErr,
                   grpColErr, grpColCtxDone, pc, i, n, colDiffs, closed, out, retErr,
                   taskPc, taskDiff, closerPc, crashed, cmpVars>>

\* rows.Scan fails: return err (line 153), nothing more is stored
ColScanFail(s) ==
    /\ Running
    /\ colPc[s] = "scan"
    /\ colIdx[s] <= Len(db[s].rows)
    /\ \E e \in FetchErrors(s, grpColCtxDone) :
          /\ grpColErr' = FirstErr(grpColErr, e)
          /\ errLog' = Logged(errLog, "col", s, e)
    /\ grpColCtxDone' = TRUE
    /\ colPc' = [colPc EXCEPT ![s] = "done"]
    /\ UNCHANGED <<O, db, ctxDone, objPc, dest, grpErr, grpCtxDone, colIdx, colBuf,
                   rowsErr, idx, pc, i, n, colDiffs, closed, out, retErr, taskPc,
                   taskDiff, closerPc, crashed, cmpVars>>

\* rows.Next() is false because of an error: the loop ends, rows.Err() is it
ColNextFail(s) ==
    /\ Running
    /\ colPc[s] = "scan"
    /\ \E e \in FetchErrors(s, grpColCtxDone) :
          rowsErr' = [rowsErr EXCEPT ![s] = e]
    /\ colPc' = [colPc EXCEPT ![s] = "final"]
    /\ UNCHANGED <<O, db, errLog, ctxDone, objPc, dest, grpErr, grpCtxDone, colIdx, colBuf, idx,
                   grpColErr, grpColCtxDone, pc, i, n, colDiffs, closed, out, retErr,
                   taskPc, taskDiff, closerPc, crashed, cmpVars>>

\* rows.Next() is false at the end of the rows
ColNextEnd(s) ==
    /\ Running
    /\ colPc[s] = "scan"
    /\ colIdx[s] > Len(db[s].rows)
    /\ colPc' = [colPc EXCEPT ![s] = "final"]
    /\ UNCHANGED <<O, db, errLog, ctxDone, objPc, dest, grpErr, grpCtxDone, colIdx, colBuf,
                   rowsErr, idx, grpColErr, grpColCtxDone, pc, i, n, colDiffs, closed,
                   out, retErr, taskPc, taskDiff, closerPc, crashed, cmpVars>>

\* after the loop (lines 163-166): todo.Dest[cols[len(cols)-1].Table] = cols,
\* a panic (index out of range) when cols is empty; then return rows.Err()
ColFinal(s) ==
    /\ Running
    /\ colPc[s] = "final"
    /\ IF colBuf[s] = <<>>
       THEN /\ crashed' = TRUE
            /\ UNCHANGED <<idx, grpColErr, grpColCtxDone, colPc, errLog>>
       ELSE /\ idx' = [idx EXCEPT ![s] =
                          Put(idx[s], colBuf[s][Len(colBuf[s])].Table, colBuf[s])]
            /\ grpColErr' = FirstErr(grpColErr, rowsErr[s])
            /\ grpColCtxDone' = (grpColCtxDone \/ rowsErr[s] # Nil)
            /\ colPc' = [colPc EXCEPT ![s] = "done"]
            /\ crashed' = crashed
            /\ errLog' = IF rowsErr[s] = Nil THEN errLog
                         ELSE Logged(errLog, "col", s, rowsErr[s])
    /\ UNCHANGED <<O, db, ctxDone, objPc, dest, grpErr, grpCtxDone, colIdx, colBuf,
                   rowsErr, pc, i, n, colDiffs, closed, out, retErr, taskPc, taskDiff,
                   closerPc, cmpVars>>

\* the caller's context is cancelled (the timeout of Main, or a signal): every
\* context derived from it is done
ParentCancel ==
    /\ Running
    /\ ~ctxDone
    /\ ctxDone' = TRUE
    /\ grpCtxDone' = TRUE
    /\ grpColCtxDone' = TRUE
    /\ UNCHANGED <<O, db, errLog, objPc, dest, grpErr, colPc, colIdx, colBuf, rowsErr, idx,
                   grpColErr, pc, i, n, colDiffs, closed, out, retErr, taskPc, taskDiff,
                   closerPc, crashed, cmpVars>>


(***************************************************************************)
(* Compare itself (lines 169-246).                                         *)
(***************************************************************************)
local == dest["local"]
remote == dest["remote"]
loCols == idx["local"]
reCols == idx["remote"]

\* make(chan TD): a channel without buffer
Unbuffered(a, b) == 0

Max(a, b) == IF a < b THEN b ELSE a

\* compare tasks that returned grpColCtx.Err() after waiting for it
CompareTaskCtxErr == Canceled

\* the compare tasks return nil (line 205), so does the Wait on them (line 213)
CompareTaskErr == Nil

\* a map keyed by the object's name alone
InOtherByName(o, other) == o.Name \in {x.Name : x \in other}

\* _, ok := other[o]: the map is keyed by the whole Object
InOther(o, other) == o \in other

\* a loop that forgot the test of o.Type
StartsTaskAnyType(o, other) == InOther(o, other)

\* whether the loop at line 190 starts a compare task for remote object o
\* (other holds the objects of local)
StartsTask(o, other) == InOther(o, other) /\ o.Type = "TABLE"

\* if err := grp.Wait(); err != nil { return err }; then the first banner and
\* the channel (lines 169-189)
WaitObj ==
    /\ Running
    /\ pc = "waitObj"
    /\ \A s \in Schemas : objPc[s] = "done"
    /\ grpCtxDone' = TRUE
    /\ IF grpErr # Nil
       THEN /\ pc' = "returned"
            /\ retErr' = grpErr
            /\ UNCHANGED <<n, out>>
       ELSE /\ n' = Max(Len(remote), Len(local))
            /\ out' = Append(out, Banner(1))
            /\ pc' = IF remote = <<>> THEN "waitCol" ELSE "missing"
            /\ retErr' = retErr
    /\ UNCHANGED <<O, db, errLog, ctxDone, objPc, dest, grpErr, colPc, colIdx, colBuf, rowsErr,
                   idx, grpColErr, grpColCtxDone, i, colDiffs, closed, taskPc, taskDiff,
                   closerPc, crashed, cmpVars>>

\* one turn of "for _, o := range remote" (lines 190-207)
Missing ==
    /\ Running
    /\ pc = "missing"
    /\ LET o == remote[i]
           other == Range(local)
       IN  /\ out' = IF ~InOther(o, other) THEN Append(out, ObjectLine(o)) ELSE out
           /\ taskPc' = IF StartsTask(o, other) THEN Put(taskPc, o, "wait") ELSE taskPc
    /\ IF i = Len(remote)
       THEN pc' = "waitCol" /\ i' = 1
       ELSE pc' = pc /\ i' = i + 1
    /\ UNCHANGED <<O, db, errLog, ctxDone, objPc, dest, grpErr, grpCtxDone, colPc, colIdx,
                   colBuf, rowsErr, idx, grpColErr, grpColCtxDone, n, colDiffs, closed,
                   retErr, taskDiff, closerPc, crashed, cmpVars>>

\* if err := grpCol.Wait(); err != nil { return err }; then the goroutine that
\* waits for the compare tasks is started and the second banner printed; with
\* local empty the third banner follows at once (lines 208-235)
WaitCol ==
    /\ Running
    /\ pc = "waitCol"
    /\ \A s \in Schemas : colPc[s] = "done"
    /\ grpColCtxDone' = TRUE
    /\ IF grpColErr # Nil
       THEN /\ pc' = "returned"
            /\ retErr' = grpColErr
            /\ UNCHANGED <<out, closerPc>>
       ELSE /\ closerPc' = "wait"
            /\ IF local = <<>>
               THEN out' = out \o <<Banner(2), Banner(3)>> /\ pc' = "drain"
               ELSE out' = Append(out, Banner(2)) /\ pc' = "extraneous"
            /\ retErr' = retErr
    /\ UNCHANGED <<O, db, errLog, ctxDone, objPc, dest, grpErr, grpCtxDone, colPc, colIdx,
                   colBuf, rowsErr, idx, grpColErr, i, n, colDiffs, closed, taskPc,
                   taskDiff, crashed, cmpVars>>

\* one turn of "for _, o := range local" (lines 226-231; other holds the
\* objects of remote); after the last one the third banner
Extraneous ==
    /\ Running
    /\ pc = "extraneous"
    /\ LET o == local[i]
           other == Range(remote)
           printed == IF InOther(o, other) THEN out ELSE Append(out, ObjectLine(o))
       IN  IF i = Len(local)
           THEN out' = Append(printed, Banner(3)) /\ pc' = "drain" /\ i' = 1
           ELSE out' = printed /\ pc' = pc /\ i' = i + 1
    /\ UNCHANGED <<O, db, errLog, ctxDone, objPc, dest, grpErr, grpCtxDone, colPc, colIdx,
                   colBuf, rowsErr, idx, grpColErr, grpColCtxDone, n, colDiffs, closed,
                   retErr, taskPc, taskDiff, closerPc, crashed, cmpVars>>

\* one turn of "for td := range colDiffs" (lines 237-243)
Drain ==
    /\ Running
    /\ pc = "drain"
    /\ colDiffs # <<>>
    /\ LET td == Head(colDiffs)
       IN  out' = IF td.Diff = <<>> THEN out ELSE Append(out, DiffLines(td))
    /\ colDiffs' = Tail(colDiffs)
    /\ UNCHANGED <<O, db, errLog, ctxDone, objPc, dest, grpErr, grpCtxDone, colPc, colIdx,
                   colBuf, rowsErr, idx, grpColErr, grpColCtxDone, pc, i, n, closed,
                   retErr, taskPc, taskDiff, closerPc, crashed, cmpVars>>

\* the channel is closed and empty: the loop ends, return err (line 245)
Return ==
    /\ Running
    /\ pc = "drain"
    /\ colDiffs = <<>>
    /\ closed
    /\ pc' = "returned"
    /\ retErr' = CompareTaskErr
    /\ UNCHANGED <<O, db, errLog, ctxDone, objPc, dest, grpErr, grpCtxDone, colPc, colIdx,
                   colBuf, rowsErr, idx, grpColErr, grpColCtxDone, i, n, colDiffs,
                   closed, out, taskPc, taskDiff, closerPc, crashed, cmpVars>>

(***************************************************************************)
(* The compare task of object o (lines 199-206) and the goroutine that     *)
(* closes colDiffs (lines 212-215).                                        *)
(***************************************************************************)
\* <-grpColCtx.Done(); diff := colCompare(loCols[o.Name], reCols[o.Name])
TaskCompare(o) ==
    /\ Running
    /\ taskPc[o] = "wait"
    /\ grpColCtxDone
    /\ LET diff == colCompare(Lookup(loCols, o.Name), Lookup(reCols, o.Name))
       IN  /\ taskDiff' = Put(taskDiff, o, diff)
           /\ taskPc' = [taskPc EXCEPT ![o] = IF diff # <<>> THEN "send" ELSE "done"]
    /\ UNCHANGED <<O, db, errLog, ctxDone, objPc, dest, grpErr, grpCtxDone, colPc, colIdx,
                   colBuf, rowsErr, idx, grpColErr, grpColCtxDone, pc, i, n, colDiffs,
                   closed, out, retErr, closerPc, crashed, cmpVars>>

\* colDiffs <- TD{Table: o.Name, Diff: diff}: waits while the buffer is full,
\* panics on a closed channel
TaskSend(o) ==
    /\ Running
    /\ taskPc[o] = "send"
    /\ closed \/ Len(colDiffs) < n
    /\ IF closed
       THEN crashed' = TRUE /\ UNCHANGED <<colDiffs, taskPc>>
       ELSE /\ colDiffs' = Append(colDiffs, [Table |-> o.Name, Diff |-> taskDiff[o]])
            /\ taskPc' = [taskPc EXCEPT ![o] = "done"]
            /\ crashed' = crashed
    /\ UNCHANGED <<O, db, errLog, ctxDone, objPc, dest, grpErr, grpCtxDone, colPc, colIdx,
                   colBuf, rowsErr, idx, grpColErr, grpColCtxDone, pc, i, n, closed,
                   out, retErr, taskDiff, closerPc, cmpVars>>

\* a goroutine that closes colDiffs without waiting for the compare tasks
CloserNoWait ==
    /\ Running
    /\ closerPc = "wait"
    /\ closed' = TRUE
    /\ closerPc' = "done"
    /\ UNCHANGED <<O, db, errLog, ctxDone, objPc, dest, grpErr, grpCtxDone, colPc, colIdx,
                   colBuf, rowsErr, idx, grpColErr, grpColCtxDone, pc, i, n, colDiffs,
                   out, retErr, taskPc, taskDiff, crashed, cmpVars>>

\* err = grp.Wait(); close(colDiffs)
Closer ==
    /\ Running
    /\ closerPc = "wait"
    /\ \A o \in DOMAIN taskPc : taskPc[o] = "done"
    /\ closed' = TRUE
    /\ closerPc' = "done"
    /\ UNCHANGED <<O, db, errLog, ctxDone, objPc, dest, grpErr, grpCtxDone, colPc, colIdx,
                   colBuf, rowsErr, idx, grpColErr, grpColCtxDone, pc, i, n, colDiffs,
                   out, retErr, taskPc, taskDiff, crashed, cmpVars>>

Next ==
    \/ \E s \in Schemas : ObjQueryFail(s)
    \/ \E s \in Schemas : ObjRowsFail(s)
    \/ \E s \in Schemas : ObjFetchOk(s)
    \/ \E s \in Schemas : ColQueryFail(s)
    \/ \E s \in Schemas : ColQueryOk(s)
    \/ \E s \in Schemas : ColScanRow(s)
    \/ \E s \in Schemas : ColScanFail(s)
    \/ \E s \in Schemas : ColNextFail(s)
    \/ \E s \in Schemas : ColNextEnd(s)
    \/ \E s \in Schemas : ColFinal(s)
    \/ ParentCancel
    \/ WaitObj
    \/ Missing
    \/ WaitCol
    \/ Extraneous
    \/ Drain
    \/ Return
    \/ \E o \in DOMAIN taskPc : TaskCompare(o)
    \/ \E o \in DOMAIN taskPc : TaskSend(o)
    \/ Closer

Spec == Init /\ [][Next]_vars

(***************************************************************************)
(* Compare when no query fails: the same tasks without their failing       *)
(* exits, over more objects.                                               *)
(***************************************************************************)
InitOk ==
    /\ O \in [TextDiff : BOOLEAN]
    /\ db \in [Schemas -> Catalogs(WideNames, WideObjs)]
    /\ Started
    /\ NoCall

NextOk ==
    \/ \E s \in Schemas : ObjFetchOk(s)
    \/ \E s \in Schemas : ColQueryOk(s)
    \/ \E s \in Schemas : ColScanRow(s)
    \/ \E s \in Schemas : ColNextEnd(s)
    \/ \E s \in Schemas : ColFinal(s)
    \/ ParentCancel
    \/ WaitObj
    \/ Missing
    \/ WaitCol
    \/ Extraneous
    \/ Drain
    \/ Return
    \/ \E o \in DOMAIN taskPc : TaskCompare(o)
    \/ \E o \in DOMAIN taskPc : TaskSend(o)
    \/ Closer

SpecOk == InitOk /\ [][NextOk]_vars

(***************************************************************************)
(* The two column tasks on their own, over rows of several tables: both    *)
(* catalogs return the same rows.                                          *)
(***************************************************************************)
\* ORDER BY 1, 2 of colQry
RowBefore(a, b) ==
    \/ NameIdx(a.Table) < NameIdx(b.Table)
    \/ a.Table = b.Table /\ ColNameIdx(a.Name) < ColNameIdx(b.Name)

RECURSIVE SortRows(_)
SortRows(S) ==
    IF S = {} THEN <<>>
    ELSE LET m == CHOOSE x \in S : \A y \in S \ {x} : RowBefore(x, y)
         IN  <<m>> \o SortRows(S \ {m})

\* the row sequences colQry can return: ordered by (table, column), no
\* (table, column) twice; column k has the type signature k
PartRows ==
    {SortRows(S) : S \in SUBSET {[Table |-> NameOf[t], Name |-> ColNameOf[k],
                                  Type |-> ColTypeOf[k]] :
                                    t \in 1..PartNames, k \in 1..PartColNames}}

InitPart ==
    /\ O = [TextDiff |-> FALSE]
    /\ \E r \in PartRows : db = [s \in Schemas |-> [objs |-> <<>>, rows |-> r]]
    /\ Started
    /\ NoCall

NextPart ==
    \/ \E s \in Schemas : ColQueryFail(s)
    \/ \E s \in Schemas : ColQueryOk(s)
    \/ \E s \in Schemas : ColScanRow(s)
    \/ \E s \in Schemas : ColScanFail(s)
    \/ \E s \in Schemas : ColNextFail(s)
    \/ \E s \in Schemas : ColNextEnd(s)
    \/ \E s \in Schemas : ColFinal(s)
    \/ ParentCancel

SpecPart == InitPart /\ [][NextPart]_vars

(***************************************************************************)
(* Compare under fair scheduling: every goroutine that can take a step     *)
(* eventually takes one, and every query eventually returns, with rows,    *)
(* with its end or with an error. Nothing obliges the caller to cancel.    *)
(***************************************************************************)
InitFair ==
    /\ O \in [TextDiff : BOOLEAN]
    /\ db \in [Schemas -> Catalogs(MaxNames, LiveObjs)]
    /\ Started
    /\ NoCall

\* the steps of the object-list task of catalog s
ObjTask(s) == ObjQueryFail(s) \/ ObjRowsFail(s) \/ ObjFetchOk(s)

\* the steps of the column task of catalog s
ColTask(s) ==
    \/ ColQueryFail(s) \/ ColQueryOk(s)
    \/ ColScanRow(s) \/ ColScanFail(s) \/ ColNextFail(s) \/ ColNextEnd(s)
    \/ ColFinal(s)

\* the steps of Compare itself
CompareSteps == WaitObj \/ Missing \/ WaitCol \/ Extraneous \/ Drain \/ Return

\* the steps of the compare task of object o, once it is started
CompareTask(o) == o \in DOMAIN taskPc /\ (TaskCompare(o) \/ TaskSend(o))

\* the objects a compare task can be started for
TaskObjects == {Object(NameOf[k], "TABLE") : k \in 1..MaxNames}

Fairness ==
    /\ \A s \in Schemas : WF_vars(ObjTask(s)) /\ WF_vars(ColTask(s))
    /\ WF_vars(CompareSteps)
    /\ \A o \in TaskObjects : WF_vars(CompareTask(o))
    /\ WF_vars(Closer)

SpecFair == InitFair /\ [][Next]_vars /\ Fairness

(***************************************************************************)
(* Properties of Compare.                                                  *)
(***************************************************************************)
IsPrefix(a, b) == Len(a) <= Len(b) /\ a = SubSeq(b, 1, Len(a))

\* where banner k was printed, 0 if it was not
BannerPos(k) ==
    IF \E j \in DOMAIN out : out[j] = Banner(k)
    THEN CHOOSE j \in DOMAIN out : out[j] = Banner(k) ELSE 0

\* what was printed under banner k
Section(k) ==
    IF BannerPos(k) = 0 THEN <<>>
    ELSE SubSeq(out, BannerPos(k) + 1,
                IF k < 3 /\ BannerPos(k + 1) # 0 THEN BannerPos(k + 1) - 1 ELSE Len(out))

\* the objects of xs that ys has not, in the order of xs
Minus(xs, ys) == SelectIdx(xs, [j \in DOMAIN xs |-> xs[j] \notin Range(ys)], 1)
ObjectLines(xs) == [j \in DOMAIN xs |-> <<"object", xs[j]>>]

CatLocal == db["local"].objs
CatRemote == db["remote"].objs

\* C1: the section "missing from local" is the subsequence of remote whose
\* (name, type) is not in local, in remote's order, the section "extraneous in
\* local" the subsequence of local whose (name, type) is not in remote, in
\* local's order, and no object is in both: what is printed of a section is
\* always its beginning, and all of it once the next banner is printed.
C1_ObjectSections ==
    /\ IsPrefix(Section(1), ObjectLines(Minus(CatRemote, CatLocal)))
    /\ IsPrefix(Section(2), ObjectLines(Minus(CatLocal, CatRemote)))
    /\ BannerPos(2) # 0 => Section(1) = ObjectLines(Minus(CatRemote, CatLocal))
    /\ BannerPos(3) # 0 => Section(2) = ObjectLines(Minus(CatLocal, CatRemote))
    /\ Range(Section(1)) \cap Range(Section(2)) = {}
    /\ pc = "returned" => BannerPos(3) # 0

\* Compare returned after printing two missing objects around one that both
\* catalogs have, and an extraneous one
C1_Witness ==
    /\ pc = "returned"
    /\ Len(Section(1)) = 2
    /\ Len(CatRemote) = 3
    /\ CatRemote[2] \in Range(CatLocal)
    /\ Len(Section(2)) >= 1

\* the objects a column comparison is due for
Eligible == {o \in Range(CatRemote) \cap Range(CatLocal) : o.Type = "TABLE"}

\* the loop over remote (line 190) is over
MissingLoopDone == BannerPos(1) # 0 /\ pc # "missing"

\* C6: a compare task is started for object o exactly if o is in remote, the
\* same (name, type) is in local and o's type is TABLE; no diff is computed,
\* sent or printed for any other object.
C6_EligibleTables ==
    /\ DOMAIN taskPc \subseteq Eligible
    /\ MissingLoopDone => DOMAIN taskPc = Eligible
    /\ DOMAIN taskDiff \subseteq Eligible
    /\ \A k \in DOMAIN colDiffs : Object(colDiffs[k].Table, "TABLE") \in Eligible
    /\ \A k \in DOMAIN out :
          out[k][1] = "diff" => Object(out[k][2], "TABLE") \in Eligible

\* both catalogs hold an index and a table of one name: a task runs for the
\* table and none for the index
C6_Witness ==
    /\ MissingLoopDone
    /\ \E o \in DOMAIN taskPc : Object(o.Name, "INDEX") \in Range(CatRemote) \cap Range(CatLocal)
    /\ \E k \in DOMAIN out : out[k][1] = "diff"

ObjFailed == \E k \in DOMAIN errLog : errLog[k].kind = "obj"
FirstObjFailure == errLog[CHOOSE k \in DOMAIN errLog : errLog[k].kind = "obj"]

\* C7: once an object-list fetch has failed, the context of the object-list
\* group is cancelled, nothing is printed and no compare task is started, and
\* what Compare returns is the first error of that group.
C7_ObjectFetchFails ==
    ObjFailed =>
        /\ grpCtxDone
        /\ out = <<>>
        /\ taskPc = <<>>
        /\ pc \in {"waitObj", "returned"}
        /\ pc = "returned" => retErr = FirstObjFailure.err

\* Compare returned the error of the local fetch, the remote one failed after it
C7_Witness ==
    /\ pc = "returned"
    /\ ObjFailed
    /\ FirstObjFailure.schema = "local"
    /\ retErr = Wrap(Error("", "ORA", "local"), "tblQry")
    /\ dest["remote"] # CatRemote

\* the rows of table t in catalog s, as Columns
ColumnsOf(s, t) ==
    LET rows == db[s].rows
        mine == SelectIdx(rows, [j \in DOMAIN rows |-> rows[j].Table = t], 1)
    IN  [j \in DOMAIN mine |-> Column(s, t, mine[j].Name, mine[j].Type)]

\* the diff of table t's columns in the two catalogs
CatalogDiff(t) == colCompare(ColumnsOf("local", t), ColumnsOf("remote", t))

\* C8: when Compare returns nil the three banners are printed, every missing
\* and every extraneous object, and one diff entry for each eligible table
\* whose column diff is not empty, none for any other table.
C8_CompleteOrError ==
    (pc = "returned" /\ retErr = Nil) =>
        /\ \A k \in 1..3 : BannerPos(k) # 0
        /\ Section(1) = ObjectLines(Minus(CatRemote, CatLocal))
        /\ Section(2) = ObjectLines(Minus(CatLocal, CatRemote))
        /\ \A k \in DOMAIN Section(3) : Section(3)[k][1] = "diff"
        /\ {Section(3)[k][2] : k \in DOMAIN Section(3)} =
              {o.Name : o \in {e \in Eligible : CatalogDiff(e.Name) # <<>>}}
        /\ \A j, k \in DOMAIN Section(3) : Section(3)[j][2] = Section(3)[k][2] => j = k

\* C9: with both object lists empty (so no column rows) and no query failing,
\* no task panics, and Compare returns nil having printed the three banners
\* and nothing else.
C9_EmptyCatalogs ==
    (/\ \A s \in Schemas : db[s].objs = <<>> /\ db[s].rows = <<>> /\ rowsErr[s] = Nil
     /\ errLog = <<>>) =>
        /\ ~crashed
        /\ pc = "returned" => retErr = Nil /\ out = <<Banner(1), Banner(2), Banner(3)>>

\* C10: Compare returns a non-nil error exactly if one of the four fetch tasks
\* returned an error; with none it returns nil, whatever differences it found.
C10_ErrorIffFetchFailed ==
    pc = "returned" =>
        /\ retErr # Nil <=> errLog # <<>>
        /\ retErr # Nil => \E k \in DOMAIN errLog : errLog[k].err = retErr

\* Compare returned nil after printing a missing object and a table's diff
C10_Witness ==
    /\ pc = "returned"
    /\ errLog = <<>>
    /\ Section(1) # <<>>
    /\ Section(3) # <<>>


(***************************************************************************)
(* Properties of the tasks' order and of what they share.                  *)
(***************************************************************************)
\* the column query of catalog s was issued and has returned
ColQueryIssued(s) == colPc[s] # "query"

\* both object-list tasks returned nil
ObjListsFetched == (\A s \in Schemas : objPc[s] = "done") /\ grpErr = Nil

\* C11: no column query is issued for either catalog before both object-list
\* fetches have completed successfully; when an object-list fetch has failed
\* no column fetch was ever started.
C11_ObjectsBeforeColumns ==
    \A s \in Schemas : ColQueryIssued(s) => ObjListsFetched

\* the column task of catalog s can still store into its map (lines 157, 164)
CanStillWrite(s) == colPc[s] # "done"

\* C12: no compare task has read loCols or reCols while a column task could
\* still write to that map: every write comes before every read.
C12_WritesBeforeReads ==
    (DOMAIN taskDiff # {}) => \A s \in Schemas : ~CanStillWrite(s)


\* the diffs the compare tasks have sent on colDiffs
Sent == {[Table |-> o.Name, Diff |-> taskDiff[o]] :
            o \in {x \in DOMAIN taskPc : taskPc[x] = "done" /\ taskDiff[x] # <<>>}}

\* C13: colDiffs is closed once, by the goroutine that waited for every
\* compare task, so no task is about to send on the closed channel; every diff
\* sent is in the channel or printed, once, and when the loop over colDiffs
\* has ended and Compare returned every diff sent is printed.
C13_CloseAfterJoin ==
    /\ closed <=> closerPc = "done"
    /\ closed => \A o \in DOMAIN taskPc : taskPc[o] = "done"
    /\ Range(colDiffs) \cup {[Table |-> ln[2], Diff |-> ln[3]] : ln \in Range(Section(3))} = Sent
    /\ Len(colDiffs) + Len(Section(3)) = Cardinality(Sent)
    /\ (pc = "returned" /\ BannerPos(3) # 0) => closed /\ colDiffs = <<>>

\* Compare returned after the diffs of two tables went through the channel
C13_Witness ==
    /\ pc = "returned"
    /\ closed
    /\ Cardinality(DOMAIN taskPc) = 2
    /\ Len(Section(3)) = 2


\* the compare tasks that have not returned
Pending == {o \in DOMAIN taskPc : taskPc[o] # "done"}

\* C14: the capacity of colDiffs is at least the number of compare tasks
\* started; the diffs in the buffer and the tasks that may still send one
\* never exceed it, so a task that sends finds room, also after Compare has
\* returned on a column-fetch error and nothing reads the channel.
C14_SendNeverBlocks ==
    /\ Cardinality(DOMAIN taskPc) <= n
    /\ Len(colDiffs) + Cardinality(Pending) <= n
    /\ \A o \in DOMAIN taskPc : taskPc[o] = "send" => Len(colDiffs) < n
    /\ \A j, k \in DOMAIN colDiffs : colDiffs[j].Table = colDiffs[k].Table => j = k

\* Compare returned the error of a column fetch; a task had sent its diff,
\* which stays in the buffer
C14_Witness ==
    /\ pc = "returned"
    /\ retErr # Nil
    /\ retErr = grpColErr
    /\ Len(colDiffs) = 1


\* the tasks Compare started that have not returned: object-list tasks,
\* column tasks, compare tasks and the goroutine closing colDiffs
Outstanding ==
    {<<"obj", s>> : s \in {x \in Schemas : objPc[x] # "done"}}
        \cup {<<"col", s>> : s \in {x \in Schemas : colPc[x] # "done"}}
        \cup {<<"compare", o>> : o \in Pending}
        \cup (IF closerPc = "wait" THEN {<<"closer">>} ELSE {})

\* C16: once the caller's context is cancelled the context of every catalog
\* query is done, and when Compare has returned, with nil or with an error,
\* none of the tasks it started is still running.
C16_NoTaskOutlives ==
    /\ ctxDone => grpCtxDone /\ grpColCtxDone
    /\ pc = "returned" => Outstanding = {}

\* the failure that came first in the run
FirstFailure == errLog[1]

\* C17: when fetch tasks have failed, the error Compare returns is that of
\* the failure that came first in time.
C17_FirstErrorInTime ==
    (pc = "returned" /\ errLog # <<>>) => retErr = FirstFailure.err

\* C19: when Compare returns the error of a failed fetch, no line of a missing
\* or an extraneous object is in the output.
C19_NoPartialOutput ==
    (pc = "returned" /\ errLog # <<>>) => \A k \in DOMAIN out : out[k][1] # "object"

\* C20: every table diff printed under the third banner is colCompare of the
\* table's complete column lists in the two catalogs.
C20_PrintedDiffsComplete ==
    \A k \in DOMAIN out :
        out[k][1] = "diff" => out[k][3] = CatalogDiff(out[k][2])


\* the column task of catalog s scanned every row and returned nil
FetchSucceeded(s) ==
    /\ colPc[s] = "done"
    /\ rowsErr[s] = Nil
    /\ colIdx[s] > Len(db[s].rows)

\* the tables that have rows in catalog s
TablesOf(s) == {db[s].rows[k].Table : k \in DOMAIN db[s].rows}

\* C18: when the column fetch of a catalog has succeeded on a non-empty row
\* sequence, the catalog's index has a key for exactly the tables with rows
\* and holds under each all the rows of that table, in the rows' order: the
\* list a fetch of that table alone would give.
C18_PartitionByTable ==
    \A s \in Schemas :
        (db[s].rows # <<>> /\ FetchSucceeded(s)) =>
            /\ DOMAIN idx[s] = TablesOf(s)
            /\ \A t \in TablesOf(s) : idx[s][t] = ColumnsOf(s, t)

\* a fetch succeeded on the rows of two tables with two columns each
C18_Witness ==
    /\ FetchSucceeded("local")
    /\ Len(db["local"].rows) = 4
    /\ Cardinality(DOMAIN idx["local"]) = 2
    /\ \A t \in DOMAIN idx["local"] : Len(idx["local"][t]) = 2


\* C15: under fair scheduling, with every query returning, Compare always
\* eventually returns.
C15_EventuallyReturns == <>(pc = "returned")

\* every fair run ends with the return of Compare or with the panic of a
\* column task (line 164): the compare tasks, the goroutine closing colDiffs
\* and the loop over colDiffs do not wait for each other forever
ReturnsOrPanics == <>(pc = "returned" \/ crashed)

=============================================================================
